---------------------------- MODULE Spec2Model ----------------------------
(***************************************************************************)
(* Model of src/bot_webhook.py: the Start/Stop conversation of the shop    *)
(* floor bot, its webhook, update de-duplication, worker pool and          *)
(* per-operator locks.                                                     *)
(*                                                                         *)
(* Texts are sequences of characters (one-character strings).  The module  *)
(* language has no Cyrillic string literals, so every Cyrillic label of    *)
(* the source is written in Latin transliteration, character by character; *)
(* the source literal is quoted beside each definition.                    *)
(***************************************************************************)
EXTENDS Integers, Sequences, FiniteSets, TLC

VARIABLES
    user_states,               \* dict uid -> {"flow", "step", "data"}      (line 292)
    user_locks,                \* dict uid -> Lock; TRUE = locked            (line 293)
    processed_update_ids,      \* deque(maxlen) of update ids                (line 373)
    processed_update_ids_set,  \* set of update ids                          (line 374)
    tasks,                     \* work items of the executor, in submit order (line 376)
    sheet,                     \* rows appended to the 'Старт-Стоп' worksheet (line 212)
    outbox,                    \* per chat: the last message given to send_message
    dispatched                 \* update ids ever given to executor.submit   (line 621)

vars == <<user_states, user_locks, processed_update_ids, processed_update_ids_set,
          tasks, sheet, outbox, dispatched>>

---------------------------------------------------------------------------
(* Bounds of the model *)

\* operators (Telegram user ids 1..NumUsers)
NumUsers == 2
\* update ids 1..NumIds the webhook may deliver (and re-deliver)
NumIds == 3
\* work items that may be in the executor at once (queued or running) in the
\* concurrent specification, and in the specifications of one operator
MaxTasks == 2
OneOperatorTasks == 2
\* stands for deque(maxlen=2000) of line 373, scaled down so that eviction happens
DedupMaxLen == 2
\* rows the worksheet may hold before the model stops accepting deliveries
MaxRows == 1

\* ThreadPoolExecutor(max_workers=4)
max_workers == 4

Users == 1..NumUsers
Ids == 1..NumIds
\* an update without "update_id": update.get("update_id") is None
NoId == 0

---------------------------------------------------------------------------
(* Characters and texts *)

Digits == <<"0", "1", "2", "3", "4", "5", "6", "7", "8", "9">>

\* U+00B2 SUPERSCRIPT TWO: str.isdigit() is True, but \d does not match it and
\* int() raises ValueError
SuperTwo == "sup2"

IsDecimal(c) == \E i \in 1..10 : Digits[i] = c
DigitVal(c) == (CHOOSE i \in 1..10 : Digits[i] = c) - 1

\* str.isdigit() of one character
CharIsDigit(c) == IsDecimal(c) \/ c = SuperTwo

\* s.isdigit(): non-empty and every character a digit
isdigit(s) == Len(s) > 0 /\ \A i \in 1..Len(s) : CharIsDigit(s[i])

\* int(s) succeeds: optional sign, then decimal digits only
RECURSIVE AllDecimal(_)
AllDecimal(s) == IF s = << >> THEN TRUE
                 ELSE IsDecimal(Head(s)) /\ AllDecimal(Tail(s))

Unsigned(s) == IF Len(s) > 0 /\ Head(s) \in {"+", "-"} THEN Tail(s) ELSE s

IntOk(s) == Len(Unsigned(s)) > 0 /\ AllDecimal(Unsigned(s))

RECURSIVE NatVal(_)
NatVal(s) == IF s = << >> THEN 0
             ELSE NatVal(SubSeq(s, 1, Len(s) - 1)) * 10 + DigitVal(s[Len(s)])

\* int(s), defined where IntOk(s)
IntVal(s) == IF Len(s) > 0 /\ Head(s) = "-" THEN 0 - NatVal(Unsigned(s))
             ELSE NatVal(Unsigned(s))

\* s.split(sep) for a one-character separator
RECURSIVE Split(_, _)
Split(s, sep) ==
    IF \A i \in 1..Len(s) : s[i] # sep THEN << s >>
    ELSE LET k == CHOOSE i \in 1..Len(s) :
                      s[i] = sep /\ \A j \in 1..(i - 1) : s[j] # sep
         IN  << SubSeq(s, 1, k - 1) >> \o Split(SubSeq(s, k + 1, Len(s)), sep)

\* f"{n:0{w}d}" for n >= 0
RECURSIVE NatDigits(_)
NatDigits(n) == IF n < 10 THEN << Digits[n + 1] >>
                ELSE NatDigits(n \div 10) \o << Digits[(n % 10) + 1] >>

RECURSIVE PadLeft(_, _)
PadLeft(s, w) == IF Len(s) >= w THEN s ELSE PadLeft(<< "0" >> \o s, w)

Fmt(n, w) == PadLeft(NatDigits(n), w)

\* the labels of the keyboards
StartStopLabel == << "S","t","a","r","t","/","S","t","o","p" >>     \* "Старт/Стоп"
BrakLabel == << "B","r","a","k" >>                                  \* "Брак"
UndoLabel == << "O","t","m","e","n","i","t","'"," ","p","o","s","l","e","d","n",
                "y","u","y","u"," ","z","a","p","i","s","'" >>      \* "Отменить последнюю запись"
CancelLabel == << "O","t","m","e","n","a" >>                        \* "Отмена"
OtherDateLabel == << "D","r","u","g","a","y","a"," ","d","a","t","a" >>       \* "Другая дата"
OtherTimeLabel == << "D","r","u","g","o","e"," ","v","r","e","m","y","a" >>   \* "Другое время"
OtherLabel == << "D","r","u","g","o","e" >>                         \* "Другое"
ZapuskLabel == << "Z","a","p","u","s","k" >>                        \* "Запуск"
OstanovkaLabel == << "O","s","t","a","n","o","v","k","a" >>         \* "Остановка"

\* message.get("text", "") of a message that carries no text (a photo, a sticker)
EmptyText == << >>

---------------------------------------------------------------------------
(* Parsers and validators *)

IsLeap(y) == (y % 4 = 0 /\ y % 100 # 0) \/ y % 400 = 0

DaysInMonth(y, m) ==
    IF m = 2 THEN (IF IsLeap(y) THEN 29 ELSE 28)
    ELSE IF m \in {4, 6, 9, 11} THEN 30 ELSE 31

\* datetime(year=y, month=m, day=d) does not raise
DateConstructible(y, m, d) ==
    /\ 1 <= y /\ y <= 9999
    /\ 1 <= m /\ m <= 12
    /\ 1 <= d /\ d <= DaysInMonth(y, m)

\* parse_date_input(s): <<iso, display>>, or <<None, None>> written NoDate
NoDate == << >>

parse_date_input(s) ==
    LET parts == Split(s, ".")
    IN  IF Len(parts) # 3 THEN NoDate
        ELSE IF ~(IntOk(parts[1]) /\ IntOk(parts[2]) /\ IntOk(parts[3])) THEN NoDate
        ELSE LET d == IntVal(parts[1])
                 m == IntVal(parts[2])
                 y == IntVal(parts[3])
             IN  IF ~DateConstructible(y, m, d) THEN NoDate
                 ELSE << Fmt(y, 4) \o << "-" >> \o Fmt(m, 2) \o << "-" >> \o Fmt(d, 2), s >>

\* mutant of validate_time_input: the hour 24 passes (hh <= 24)
validate_time_input_Hour24(s) ==
    /\ Len(s) = 5
    /\ IsDecimal(s[1]) /\ IsDecimal(s[2]) /\ s[3] = ":"
    /\ IsDecimal(s[4]) /\ IsDecimal(s[5])
    /\ LET hh == IntVal(SubSeq(s, 1, 2))
           mm == IntVal(SubSeq(s, 4, 5))
       IN  0 <= hh /\ hh <= 24 /\ 0 <= mm /\ mm < 60

\* validate_time_input(s): ^\d{2}:\d{2}$ then 0 <= hh < 24 and 0 <= mm < 60
validate_time_input(s) ==
    /\ Len(s) = 5
    /\ IsDecimal(s[1]) /\ IsDecimal(s[2]) /\ s[3] = ":"
    /\ IsDecimal(s[4]) /\ IsDecimal(s[5])
    /\ LET hh == IntVal(SubSeq(s, 1, 2))
           mm == IntVal(SubSeq(s, 4, 5))
       IN  0 <= hh /\ hh < 24 /\ 0 <= mm /\ mm < 60

\* validate_znp(s)
validate_znp(s) == isdigit(s) /\ Len(s) = 4

\* validate_meters(s)
validate_meters(s) == isdigit(s)

---------------------------------------------------------------------------
(* Reasons helper *)

UpperCase == << "A","B","C","D","E","F","G","H","I","J","K","L","M",
                "N","O","P","Q","R","S","T","U","V","W","X","Y","Z" >>
LowerCase == << "a","b","c","d","e","f","g","h","i","j","k","l","m",
                "n","o","p","q","r","s","t","u","v","w","x","y","z" >>

\* s.lower()
lower(s) ==
    [i \in 1..Len(s) |->
        IF \E k \in 1..26 : UpperCase[k] = s[i]
        THEN LowerCase[CHOOSE k \in 1..26 : UpperCase[k] = s[i]]
        ELSE s[i]]

\* s.startswith(p)
startswith(s, p) == Len(s) >= Len(p) /\ SubSeq(s, 1, Len(p)) = p

\* s.strip(), for blanks
RECURSIVE strip(_)
strip(s) ==
    IF s = << >> THEN s
    ELSE IF Head(s) = " " THEN strip(Tail(s))
    ELSE IF s[Len(s)] = " " THEN strip(SubSeq(s, 1, Len(s) - 1))
    ELSE s

\* [v.strip() for v in vals if v and v.strip()]
RECURSIVE StrippedNonEmpty(_)
StrippedNonEmpty(vals) ==
    IF vals = << >> THEN << >>
    ELSE IF strip(Head(vals)) = << >> THEN StrippedNonEmpty(Tail(vals))
    ELSE << strip(Head(vals)) >> \o StrippedNonEmpty(Tail(vals))

\* 'прич', the start of the header of the reasons column
HeaderStart == << "p","r","i","c","h" >>

\* load_reasons(): the list of stop reasons, from column 1 (vals) of the
\* reasons worksheet; fetchOk is FALSE when no worksheet can be read
load_reasons(vals, fetchOk) ==
    IF ~fetchOk THEN << OtherLabel >>
    ELSE LET res == StrippedNonEmpty(vals)
             body == IF res # << >> /\ startswith(lower(res[1]), HeaderStart)
                     THEN Tail(res) ELSE res
         IN  IF body = << >> THEN << OtherLabel >>
             ELSE IF \A i \in 1..Len(body) : body[i] # OtherLabel
             THEN Append(body, OtherLabel)
             ELSE body

\* column 1 of a reasons worksheet: the header, two reasons, an empty cell
ReasonsColumn ==
    << << "P","r","i","c","h","i","n","a" >>,             \* 'Причина'
       << "R","e","m","o","n","t" >>,                     \* 'Ремонт'
       << " ","N","a","l","a","d","k","a"," " >>,         \* ' Наладка '
       << >> >>

---------------------------------------------------------------------------
(* Dictionaries *)

\* d.get(k, '')
Get(d, k) == IF k \in DOMAIN d THEN d[k] ELSE EmptyText

\* d[k] = v
Put(d, k, v) == [x \in (DOMAIN d) \cup {k} |-> IF x = k THEN v ELSE d[x]]

\* del d[k]
Del(d, k) == [x \in (DOMAIN d) \ {k} |-> d[x]]

---------------------------------------------------------------------------
(* Conversation state *)

\* mutant of start_startstop_flow: the new conversation skips the line step
start_startstop_flow_SkipsLine(us, uid) ==
    [x \in (DOMAIN us) \cup {uid} |->
        IF x = uid THEN [flow |-> "startstop",
                         step |-> "date",
                         data |-> [user |-> uid, chat_id |-> uid]]
        ELSE us[x]]

\* start_startstop_flow(uid, user_info, chat_id): the new user_states
\* (a private chat: chat_id is the operator's id)
start_startstop_flow(us, uid) ==
    Put(us, uid, [flow |-> "startstop",
                  step |-> "line",
                  data |-> [user |-> uid, chat_id |-> uid]])

\* mutant of cancel_flow: user_states.clear() instead of del user_states[uid]
cancel_flow_ClearsAll(us, uid) == << >>

\* cancel_flow(uid): the new user_states
cancel_flow(us, uid) == IF uid \in DOMAIN us THEN Del(us, uid) ELSE us

\* mutant of Advance: state["data"] = {k: v}, the fields stored before are lost
Advance_Resets(us, uid, k, v, step) ==
    [us EXCEPT ![uid] = [flow |-> us[uid].flow,
                         step |-> step,
                         data |-> Put(<< >>, k, v)]]

\* state["data"][k] = v; state["step"] = step
Advance(us, uid, k, v, step) ==
    [us EXCEPT ![uid] = [flow |-> us[uid].flow,
                         step |-> step,
                         data |-> Put(us[uid].data, k, v)]]

\* mutant of SetStep: the name of the step is written with a hyphen, a name no
\* branch of process_update tests
SetStep_Misspelt(us, uid, step) ==
    [us EXCEPT ![uid].step = IF step = "reason_custom" THEN "reason-custom" ELSE step]

\* state["step"] = step
SetStep(us, uid, step) == [us EXCEPT ![uid].step = step]

---------------------------------------------------------------------------
(* Outgoing messages: the text and the keyboard given to send_message *)

Msg(text, kb) == [text |-> text, kb |-> kb]

\* no call of send_message
NoSend == Msg("", "")

AskLine       == Msg("Nomer linii (1-15):", "cancel_kb")                     \* line 417
NotImplBrak   == Msg("Razdel Brak poka ne realizovan.", "main_menu_kb")      \* line 420
NotImplUndo   == Msg("Funkciya otmeny poka ne realizovana.", "main_menu_kb") \* line 423
MainMenu      == Msg("Vyberite deystvie:", "main_menu_kb")                   \* line 426
StateError    == Msg("Proizoshla oshibka sostoyaniya. Nachnite zanovo.", "main_menu_kb") \* line 432
Cancelled     == Msg("Otmeneno.", "main_menu_kb")                            \* line 438
BadLine       == Msg("Vvedite nomer linii ot 1 do 15 (celoe chislo):", "cancel_kb")      \* line 444
AskDate       == Msg("Data (dd.mm.gggg):", "date_menu_kb")                   \* line 448
AskDateCustom == Msg("Vvedite datu v formate dd.mm.gggg:", "cancel_kb")      \* line 453
BadDate       == Msg("Neverniy format daty. Vvedite v formate dd.mm.gggg ili vyberite knopku:", "date_menu_kb") \* line 458
BadDateCustom == Msg("Neverniy format. Vvedite datu v formate dd.mm.gggg:", "cancel_kb") \* line 469
AskTime       == Msg("Vremya (chch:mm):", "time_menu_kb")                    \* line 463
AskTimeCustom == Msg("Vvedite vremya v formate chch:mm:", "cancel_kb")       \* line 479
BadTime       == Msg("Neverniy format vremeni. Vvedite chch:mm ili vyberite knopku:", "time_menu_kb") \* line 483
BadTimeCustom == Msg("Neverniy format vremeni. Vvedite chch:mm:", "cancel_kb") \* line 492
AskAction     == Msg("Deystvie:", "action_menu_kb")                          \* line 487
BadAction     == Msg("Vyberite deystvie: Zapusk ili Ostanovka", "action_menu_kb") \* line 501
AskZnp        == Msg("Nomer ZNP (4 cifry):", "cancel_kb")                    \* line 508
AskReason     == Msg("Prichina ostanovki:", "reasons_menu_kb")               \* line 514
AskReasonCustom == Msg("Vvedite prichinu ostanovki (tekst):", "cancel_kb")   \* line 522
BadZnp        == Msg("Neverniy format ZNP. Vvedite rovno 4 cifry:", "cancel_kb") \* line 540
AskMeters     == Msg("Kolichestvo metrov braka (celoe chislo):", "cancel_kb") \* line 544
BadMeters     == Msg("Vvedite kolichestvo metrov braka chislom (celoe):", "cancel_kb") \* line 550
Recorded      == Msg("Zapisano!", "main_menu_kb")                            \* line 572
FallbackError == Msg("Proizoshla oshibka. Nachnite zanovo.", "main_menu_kb") \* line 589

---------------------------------------------------------------------------
(* The record sink *)

ActionZapusk == << "z","a","p","u","s","k" >>                  \* 'запуск'
ActionOstanovka == << "o","s","t","a","n","o","v","k","a" >>   \* 'остановка'

\* user_repr = f"{uid} (@{username or 'без_username'})"
UserRepr(uid) == << uid, "(@bez_username)" >>

\* datetime.now().strftime('%Y-%m-%d %H:%M:%S')
Timestamp == << "n","o","w" >>

\* the data_dict built at the meters step
DataDict(data, uid) ==
    [date_display |-> Get(data, "date_display"),
     time         |-> Get(data, "time"),
     line         |-> Get(data, "line"),
     action       |-> Get(data, "action"),
     reason       |-> Get(data, "reason"),
     znp          |-> Get(data, "znp"),
     meters       |-> Get(data, "meters"),
     user_repr    |-> UserRepr(uid),
     timestamp    |-> Timestamp,
     status       |-> EmptyText]

\* mutant of RowOf: the cells of 'Причина' and 'ЗНП' are filled from each
\* other's key
RowOf_SwapsReasonZnp(dd) ==
    << dd.date_display,
       dd.time,
       dd.line,
       IF dd.action = ActionZapusk THEN ZapuskLabel
       ELSE IF dd.action = ActionOstanovka THEN OstanovkaLabel
       ELSE dd.action,
       dd.znp,
       dd.reason,
       dd.meters,
       dd.user_repr,
       dd.timestamp,
       dd.status >>

\* the row built by append_to_startstop_sheet_by_headers, in the order of
\* HEADERS_STARTSTOP: 'Дата', 'Время', 'Номер линии', 'Действие', 'Причина',
\* 'ЗНП', 'Метров брака', 'Пользователь', 'Время отправки', 'Статус'
RowOf(dd) ==
    << dd.date_display,
       dd.time,
       dd.line,
       IF dd.action = ActionZapusk THEN ZapuskLabel
       ELSE IF dd.action = ActionOstanovka THEN OstanovkaLabel
       ELSE dd.action,
       dd.reason,
       dd.znp,
       dd.meters,
       dd.user_repr,
       dd.timestamp,
       dd.status >>

\* append_to_startstop_sheet_by_headers(data_dict): the new sheet.  An exception
\* of the worksheet call (appendOk = FALSE) is logged and swallowed.
append_to_startstop_sheet_by_headers(sh, dd, appendOk) ==
    IF appendOk THEN Append(sh, RowOf(dd)) ELSE sh

---------------------------------------------------------------------------
(* process_update: the body run under the operator's lock (lines 412-589).  *)
(* Each operator below gives the outcome of one message: the new            *)
(* user_states, the new sheet, the message given to send_message, and       *)
(* whether an exception left the body.                                      *)

Outcome(us, sh, msg) == [us |-> us, sheet |-> sh, msg |-> msg, raised |-> FALSE]

\* an exception raised before any assignment: nothing changed, nothing sent
Raised(us, sh) == [us |-> us, sheet |-> sh, msg |-> NoSend, raised |-> TRUE]

\* lines 414-427: no active conversation
MenuSelection(us, sh, uid, text) ==
    IF text = StartStopLabel THEN Outcome(start_startstop_flow(us, uid), sh, AskLine)
    ELSE IF text = BrakLabel THEN Outcome(us, sh, NotImplBrak)
    ELSE IF text = UndoLabel THEN Outcome(us, sh, NotImplUndo)
    ELSE Outcome(us, sh, MainMenu)

\* mutant of StepLine: the upper limit is off by one
StepLine_UpTo16(us, sh, uid, text) ==
    IF ~isdigit(text) THEN Outcome(us, sh, BadLine)
    ELSE IF ~IntOk(text) THEN Raised(us, sh)
    ELSE IF ~(1 <= IntVal(text) /\ IntVal(text) <= 16) THEN Outcome(us, sh, BadLine)
    ELSE Outcome(Advance(us, uid, "line", text, "date"), sh, AskDate)

\* lines 442-449
StepLine(us, sh, uid, text) ==
    IF ~isdigit(text) THEN Outcome(us, sh, BadLine)
    ELSE IF ~IntOk(text) THEN Raised(us, sh)                    \* int(text): ValueError
    ELSE IF ~(1 <= IntVal(text) /\ IntVal(text) <= 15) THEN Outcome(us, sh, BadLine)
    ELSE Outcome(Advance(us, uid, "line", text, "date"), sh, AskDate)

\* lines 456-464 and 467-475: parse, store date_iso and date_display
StoreDate(us, sh, uid, text, bad) ==
    LET parsed == parse_date_input(text)
    IN  IF parsed = NoDate THEN Outcome(us, sh, bad)
        ELSE Outcome(Advance(Advance(us, uid, "date_iso", parsed[1], "time"),
                             uid, "date_display", parsed[2], "time"),
                     sh, AskTime)

\* lines 451-464
StepDate(us, sh, uid, text) ==
    IF text = OtherDateLabel THEN Outcome(SetStep(us, uid, "date_custom"), sh, AskDateCustom)
    ELSE StoreDate(us, sh, uid, text, BadDate)

\* lines 466-475
StepDateCustom(us, sh, uid, text) == StoreDate(us, sh, uid, text, BadDateCustom)

\* lines 477-488
StepTime(us, sh, uid, text) ==
    IF text = OtherTimeLabel THEN Outcome(SetStep(us, uid, "time_custom"), sh, AskTimeCustom)
    ELSE IF ~validate_time_input(text) THEN Outcome(us, sh, BadTime)
    ELSE Outcome(Advance(us, uid, "time", text, "action"), sh, AskAction)

\* lines 490-497
StepTimeCustom(us, sh, uid, text) ==
    IF ~validate_time_input(text) THEN Outcome(us, sh, BadTimeCustom)
    ELSE Outcome(Advance(us, uid, "time", text, "action"), sh, AskAction)

\* mutant of StepAction: a start is sent to the reason step like a stop
StepAction_StartAsksReason(us, sh, uid, text) ==
    IF text \notin {ZapuskLabel, OstanovkaLabel} THEN Outcome(us, sh, BadAction)
    ELSE IF text = ZapuskLabel
         THEN Outcome(Advance(us, uid, "action", ActionZapusk, "reason"), sh, AskReason)
         ELSE Outcome(Advance(us, uid, "action", ActionOstanovka, "reason"), sh, AskReason)

\* lines 499-515
StepAction(us, sh, uid, text) ==
    IF text \notin {ZapuskLabel, OstanovkaLabel} THEN Outcome(us, sh, BadAction)
    ELSE IF text = ZapuskLabel
         THEN Outcome(Advance(us, uid, "action", ActionZapusk, "znp"), sh, AskZnp)
         ELSE Outcome(Advance(us, uid, "action", ActionOstanovka, "reason"), sh, AskReason)

\* lines 518-529
StepReason(us, sh, uid, text) ==
    IF text = OtherLabel THEN Outcome(SetStep(us, uid, "reason_custom"), sh, AskReasonCustom)
    ELSE Outcome(Advance(us, uid, "reason", text, "znp"), sh, AskZnp)

\* lines 531-535
StepReasonCustom(us, sh, uid, text) ==
    Outcome(Advance(us, uid, "reason", text, "znp"), sh, AskZnp)

\* mutant of StepZnp: the text is stored before it is validated
StepZnp_StoresFirst(us, sh, uid, text) ==
    IF ~validate_znp(text) THEN Outcome(Advance(us, uid, "znp", text, "znp"), sh, BadZnp)
    ELSE Outcome(Advance(us, uid, "znp", text, "meters"), sh, AskMeters)

\* lines 538-545
StepZnp(us, sh, uid, text) ==
    IF ~validate_znp(text) THEN Outcome(us, sh, BadZnp)
    ELSE Outcome(Advance(us, uid, "znp", text, "meters"), sh, AskMeters)

\* lines 548-585: store meters, append the row, confirm, delete the state
StepMeters(us, sh, uid, text, appendOk) ==
    IF ~validate_meters(text) THEN Outcome(us, sh, BadMeters)
    ELSE LET stored == Advance(us, uid, "meters", text, "meters")
             dd == DataDict(stored[uid].data, uid)
         IN  Outcome(cancel_flow(stored, uid),
                     append_to_startstop_sheet_by_headers(sh, dd, appendOk),
                     Recorded)

\* lines 441-589: the step of the conversation
FlowSteps(us, sh, uid, text, appendOk) ==
    LET step == us[uid].step
    IN  IF step = "line" THEN StepLine(us, sh, uid, text)
        ELSE IF step = "date" THEN StepDate(us, sh, uid, text)
        ELSE IF step = "date_custom" THEN StepDateCustom(us, sh, uid, text)
        ELSE IF step = "time" THEN StepTime(us, sh, uid, text)
        ELSE IF step = "time_custom" THEN StepTimeCustom(us, sh, uid, text)
        ELSE IF step = "action" THEN StepAction(us, sh, uid, text)
        ELSE IF step = "reason" THEN StepReason(us, sh, uid, text)
        ELSE IF step = "reason_custom" THEN StepReasonCustom(us, sh, uid, text)
        ELSE IF step = "znp" THEN StepZnp(us, sh, uid, text)
        ELSE IF step = "meters" THEN StepMeters(us, sh, uid, text, appendOk)
        ELSE Outcome(cancel_flow(us, uid), sh, FallbackError)

\* mutant of ActiveConversation: the cancel sentinel is not looked at before
\* the step's own parsing
ActiveConversation_NoCancel(us, sh, uid, text, appendOk) ==
    FlowSteps(us, sh, uid, text, appendOk)

\* lines 435-589: the cancel sentinel first, then the step
ActiveConversation(us, sh, uid, text, appendOk) ==
    IF text = CancelLabel THEN Outcome(cancel_flow(us, uid), sh, Cancelled)
    ELSE FlowSteps(us, sh, uid, text, appendOk)

\* mutant of LockedBody: the main-menu label 'Старт/Стоп' is looked at before the
\* store, so it starts a new conversation over an active one
LockedBody_MenuFirst(us, sh, uid, text, appendOk) ==
    IF text = StartStopLabel THEN Outcome(start_startstop_flow(us, uid), sh, AskLine)
    ELSE IF uid \notin DOMAIN us THEN MenuSelection(us, sh, uid, text)
    ELSE IF us[uid].flow # "startstop" THEN Outcome(cancel_flow(us, uid), sh, StateError)
    ELSE ActiveConversation(us, sh, uid, text, appendOk)

\* lines 414-589
LockedBody(us, sh, uid, text, appendOk) ==
    IF uid \notin DOMAIN us THEN MenuSelection(us, sh, uid, text)
    ELSE IF us[uid].flow # "startstop" THEN Outcome(cancel_flow(us, uid), sh, StateError)
    ELSE ActiveConversation(us, sh, uid, text, appendOk)

---------------------------------------------------------------------------
(* De-duplication *)

\* deque.append(x) with maxlen: a full deque drops its oldest element
DequeAppend(q, x, maxlen) ==
    IF Len(q) < maxlen THEN Append(q, x) ELSE Append(Tail(q), x)

SeqToSet(q) == {q[i] : i \in DOMAIN q}

\* mutant of is_duplicate_update: processed_update_ids_set.add is forgotten, the
\* set is filled only by the rebuild of a full deque
is_duplicate_update_NoAdd(q, set, update_id) ==
    IF update_id \in set
    THEN [dup |-> TRUE, q |-> q, set |-> set]
    ELSE LET q2 == IF Len(q) < DedupMaxLen THEN Append(q, update_id)
                   ELSE Append(Tail(q), update_id)
         IN  [dup |-> FALSE,
              q   |-> q2,
              set |-> IF Len(q2) = DedupMaxLen THEN {q2[i] : i \in DOMAIN q2}
                      ELSE set]

\* mutant of is_duplicate_update: the set is never rebuilt from the deque, so
\* an id the deque has dropped stays in the set
is_duplicate_update_NoRebuild(q, set, update_id) ==
    IF update_id \in set
    THEN [dup |-> TRUE, q |-> q, set |-> set]
    ELSE [dup |-> FALSE,
          q   |-> DequeAppend(q, update_id, DedupMaxLen),
          set |-> set \cup {update_id}]

\* is_duplicate_update(update_id), run under processed_updates_lock: the answer
\* and the new deque and set
is_duplicate_update(q, set, update_id) ==
    IF update_id \in set
    THEN [dup |-> TRUE, q |-> q, set |-> set]
    ELSE LET q2 == DequeAppend(q, update_id, DedupMaxLen)
         IN  [dup |-> FALSE,
              q   |-> q2,
              set |-> IF Len(q2) = DedupMaxLen THEN SeqToSet(q2)
                      ELSE set \cup {update_id}]

---------------------------------------------------------------------------
(* Updates and work items *)

\* an inbound update: update_id (NoId when absent), the sender, the stripped
\* text of the message; message = FALSE for an update that carries no message
Update(id, uid, text, message) ==
    [update_id |-> id, uid |-> uid, text |-> text, message |-> message]

\* the sender and text of an update without a message are never read
NoMessageUpdate(id) == Update(id, 1, EmptyText, FALSE)

UpdatesOf(I, U, T) ==
    {Update(id, uid, text, TRUE) : id \in I, uid \in U, text \in T}
        \cup {NoMessageUpdate(id) : id \in I}

\* a work item of the executor, process_update(update).
\* pc: "queued" in the executor's queue; "acquire" a worker runs process_update
\* up to ulock.acquire; "locked" the worker holds the operator's lock
Task(update, pc) ==
    [update_id |-> update.update_id, uid |-> update.uid, text |-> update.text,
     message |-> update.message, pc |-> pc]

Remove(q, i) == SubSeq(q, 1, i - 1) \o SubSeq(q, i + 1, Len(q))

Running(q) == Cardinality({i \in DOMAIN q : q[i].pc # "queued"})

\* mutant of LockFree: acquire does not look at the holder
LockFree_IgnoresHolder(locks, uid) == TRUE

\* ulock.acquire(timeout=5) may take the lock: it exists and is not held, or
\* get_user_lock has just created it
LockFree(locks, uid) == IF uid \in DOMAIN locks THEN ~locks[uid] ELSE TRUE

---------------------------------------------------------------------------
(* Actions *)

Init ==
    /\ user_states = << >>
    /\ user_locks = << >>
    /\ processed_update_ids = << >>
    /\ processed_update_ids_set = {}
    /\ tasks = << >>
    /\ sheet = << >>
    /\ outbox = [u \in Users |-> NoSend]
    /\ dispatched = {}

\* executor.submit(process_update, update), line 621
Submit(q, update) == Append(q, Task(update, "queued"))

\* webhook(token), lines 603-627, for a request with the right token and a JSON
\* body: de-duplicate, then executor.submit(process_update, update)
webhook(update, maxTasks) ==
    /\ Len(tasks) < maxTasks
    /\ Len(sheet) < MaxRows
    /\ IF update.update_id # NoId
       THEN LET r == is_duplicate_update(processed_update_ids,
                                         processed_update_ids_set, update.update_id)
            IN  /\ processed_update_ids' = r.q
                /\ processed_update_ids_set' = r.set
                /\ IF r.dup
                   THEN UNCHANGED <<tasks, dispatched>>
                   ELSE /\ tasks' = Submit(tasks, update)
                        /\ dispatched' = dispatched \cup {update.update_id}
       ELSE /\ tasks' = Submit(tasks, update)
            /\ UNCHANGED <<processed_update_ids, processed_update_ids_set, dispatched>>
    /\ UNCHANGED <<user_states, user_locks, sheet, outbox>>

\* a worker thread of the executor takes the oldest queued work item and runs
\* process_update up to line 407; an update without a message returns at line 398
Dequeue(i) ==
    /\ tasks[i].pc = "queued"
    /\ \A j \in 1..(i - 1) : tasks[j].pc # "queued"
    /\ Running(tasks) < max_workers
    /\ tasks' = IF tasks[i].message
                THEN [tasks EXCEPT ![i].pc = "acquire"]
                ELSE Remove(tasks, i)
    /\ UNCHANGED <<user_states, user_locks, processed_update_ids,
                   processed_update_ids_set, sheet, outbox, dispatched>>

\* lines 407-408: get_user_lock(uid), then ulock.acquire(timeout=5) succeeds
Acquire(i) ==
    /\ tasks[i].pc = "acquire"
    /\ LockFree(user_locks, tasks[i].uid)
    /\ user_locks' = Put(user_locks, tasks[i].uid, TRUE)
    /\ tasks' = [tasks EXCEPT ![i].pc = "locked"]
    /\ UNCHANGED <<user_states, processed_update_ids, processed_update_ids_set,
                   sheet, outbox, dispatched>>

\* lines 408-411: the lock stayed held for 5 seconds; the update is skipped
AcquireTimeout(i) ==
    /\ tasks[i].pc = "acquire"
    /\ ~LockFree(user_locks, tasks[i].uid)
    /\ tasks' = Remove(tasks, i)
    /\ UNCHANGED <<user_states, user_locks, processed_update_ids,
                   processed_update_ids_set, sheet, outbox, dispatched>>

\* mutant of ProcessUpdate: ulock.release() at the end of the body instead of in
\* finally, so an exception raised inside a step leaves the lock held
ProcessUpdate_LeaksOnRaise(i) ==
    /\ tasks[i].pc = "locked"
    /\ \E appendOk \in BOOLEAN :
         LET uid == tasks[i].uid
             o == LockedBody(user_states, sheet, uid, tasks[i].text, appendOk)
         IN  /\ user_states' = o.us
             /\ sheet' = o.sheet
             /\ outbox' = IF o.msg = NoSend THEN outbox
                          ELSE [outbox EXCEPT ![uid] = o.msg]
             /\ user_locks' = IF o.raised THEN user_locks
                              ELSE Put(user_locks, uid, FALSE)
    /\ tasks' = Remove(tasks, i)
    /\ UNCHANGED <<processed_update_ids, processed_update_ids_set, dispatched>>

\* lines 412-593: the body under the lock, then finally: ulock.release()
ProcessUpdate(i) ==
    /\ tasks[i].pc = "locked"
    /\ \E appendOk \in BOOLEAN :
         LET uid == tasks[i].uid
             o == LockedBody(user_states, sheet, uid, tasks[i].text, appendOk)
         IN  /\ user_states' = o.us
             /\ sheet' = o.sheet
             /\ outbox' = IF o.msg = NoSend THEN outbox
                          ELSE [outbox EXCEPT ![uid] = o.msg]
             /\ user_locks' = Put(user_locks, uid, FALSE)
    /\ tasks' = Remove(tasks, i)
    /\ UNCHANGED <<processed_update_ids, processed_update_ids_set, dispatched>>

---------------------------------------------------------------------------
(* Specifications *)

NextOf(updates, maxTasks) ==
    \/ \E update \in updates : webhook(update, maxTasks)
    \/ \E i \in DOMAIN tasks : Dequeue(i)
    \/ \E i \in DOMAIN tasks : Acquire(i)
    \/ \E i \in DOMAIN tasks : AcquireTimeout(i)
    \/ \E i \in DOMAIN tasks : ProcessUpdate(i)

\* Spec: several operators and several work items at once.  The updates carry
\* no update_id, as fresh ids do they pass the de-duplication.
ConcTexts == { StartStopLabel, << "3" >> }

Next == NextOf(UpdatesOf({NoId}, Users, ConcTexts), MaxTasks)

Spec == Init /\ [][Next]_vars

\* DedupSpec: one operator, update ids delivered and re-delivered.
DedupTexts == { StartStopLabel, CancelLabel }

NextDedup == NextOf(UpdatesOf(Ids, {1}, DedupTexts), MaxTasks)

DedupSpec == Init /\ [][NextDedup]_vars

\* FlowSpec: one operator walks through the whole conversation.
FlowTexts ==
    { StartStopLabel, BrakLabel, UndoLabel, CancelLabel, EmptyText,
      << "3" >>,
      << "0","1",".","0","2",".","2","0","2","5" >>, OtherDateLabel,
      << "0","8",":","0","0" >>, OtherTimeLabel,
      ZapuskLabel, OstanovkaLabel, OtherLabel,
      << "1","2","3","4" >> }

NextFlow == NextOf(UpdatesOf({NoId}, {1}, FlowTexts), OneOperatorTasks)

FlowSpec == Init /\ [][NextFlow]_vars

\* IdleSpec: one operator opens or cancels a conversation and may then stay
\* silent.  The worker threads of the executor keep running: every work item is
\* eventually taken, and every held lock is eventually released.
NextIdle == NextOf(UpdatesOf({NoId}, {1}, DedupTexts), OneOperatorTasks)

IdleSpec ==
    /\ Init
    /\ [][NextIdle]_vars
    /\ WF_vars(\E i \in DOMAIN tasks : Dequeue(i))
    /\ WF_vars(\E i \in DOMAIN tasks : Acquire(i) \/ AcquireTimeout(i))
    /\ WF_vars(\E i \in DOMAIN tasks : ProcessUpdate(i))

\* FrameSpec: operator 1 walks through a whole start report (refusals and a
\* failing append included) while operator 2 opens a conversation and sends a
\* text on which int() raises.
FrameTexts1 ==
    { StartStopLabel,
      << "3" >>,
      << "0","1",".","0","2",".","2","0","2","5" >>,
      << "0","8",":","0","0" >>,
      ZapuskLabel,
      << "1","2","3","4" >> }

FrameTexts2 == { StartStopLabel, << SuperTwo >> }

NextFrame ==
    NextOf(UpdatesOf({NoId}, {1}, FrameTexts1) \cup UpdatesOf({NoId}, {2}, FrameTexts2),
           MaxTasks)

FrameSpec == Init /\ [][NextFrame]_vars

\* LineSpec: one operator answers the line prompt with numerals inside and
\* outside 1..15, with a leading zero, with a sign, with a superscript digit
\* and with a letter.
LineTexts ==
    { StartStopLabel,
      << "0" >>, << "1" >>, << "1","5" >>, << "1","6" >>, << "0","3" >>,
      << "+","3" >>, << SuperTwo >>, << "a" >> }

NextLine == NextOf(UpdatesOf({NoId}, {1}, LineTexts), OneOperatorTasks)

LineSpec == Init /\ [][NextLine]_vars

\* TimeSpec: one operator reaches the time step and answers it, directly or
\* through 'Другое время', with times at and beyond the limits.
TimeTexts ==
    { StartStopLabel,
      << "3" >>,
      << "0","1",".","0","2",".","2","0","2","5" >>,
      OtherTimeLabel,
      << "0","8",":","0","0" >>, << "2","3",":","5","9" >>,
      << "2","4",":","0","0" >>, << "1","2",":","6","0" >>,
      << "8",":","0","0" >>, << "0",SuperTwo,":","0","0" >> }

NextTime == NextOf(UpdatesOf({NoId}, {1}, TimeTexts), OneOperatorTasks)

TimeSpec == Init /\ [][NextTime]_vars

---------------------------------------------------------------------------
(* Properties *)

\* this step is ProcessUpdate(i): the work item that holds the lock is finished
Handled(i) == tasks[i].pc = "locked" /\ tasks' = Remove(tasks, i)

\* this step is webhook handing an update with this id to the executor
Submitted(id) ==
    /\ Len(tasks') = Len(tasks) + 1
    /\ tasks'[Len(tasks')].update_id = id

\* ProcessUpdate(i) is at the meters step with an accepted scrap length: finalize
Finalizes(i) ==
    /\ Handled(i)
    /\ tasks[i].uid \in DOMAIN user_states
    /\ user_states[tasks[i].uid].step = "meters"
    /\ tasks[i].text # CancelLabel
    /\ validate_meters(tasks[i].text)

\* C1: whenever a message with the text 'Отмена' is processed while the operator
\* has a conversation state (at whatever step), the state is deleted, nothing of
\* the message is stored, and no row is appended to the sheet.
C1_CancelDeletesState ==
    [][\A i \in DOMAIN tasks :
          (/\ Handled(i)
           /\ tasks[i].text = CancelLabel
           /\ tasks[i].uid \in DOMAIN user_states)
          => /\ tasks[i].uid \notin DOMAIN user_states'
             /\ sheet' = sheet
             /\ outbox'[tasks[i].uid] = Cancelled]_vars

\* C1 witness: a conversation has been cancelled: the acknowledgment was sent,
\* the operator has no state, the sheet has no row
C1_Witness ==
    /\ outbox[1] = Cancelled
    /\ 1 \notin DOMAIN user_states
    /\ sheet = << >>

\* C2: every row of the sheet has date, time, line, action, reference code, scrap
\* length, operator and submission timestamp non-empty, and a non-empty reason
\* when its action is 'Остановка'.
C2_RecordsComplete ==
    \A r \in DOMAIN sheet :
        /\ \A c \in {1, 2, 3, 4, 6, 7, 8, 9} : sheet[r][c] # EmptyText
        /\ sheet[r][4] = OstanovkaLabel => sheet[r][5] # EmptyText

\* C3: whenever a message is processed while the operator has no conversation
\* state, 'Старт/Стоп' creates a startstop state at the line step, and a text
\* other than 'Старт/Стоп' and 'Брак' sends the main menu keyboard and leaves
\* the operator without a state.
C3_EntryFromNoState ==
    [][\A i \in DOMAIN tasks :
          (Handled(i) /\ tasks[i].uid \notin DOMAIN user_states)
          => LET uid == tasks[i].uid
             IN  IF tasks[i].text = StartStopLabel
                 THEN /\ uid \in DOMAIN user_states'
                      /\ user_states'[uid].flow = "startstop"
                      /\ user_states'[uid].step = "line"
                 ELSE tasks[i].text # BrakLabel
                      => /\ uid \notin DOMAIN user_states'
                         /\ outbox'[uid].kb = "main_menu_kb"]_vars

\* C3 witness: 'Старт/Стоп' from no state has opened a conversation at the line
\* step and the line prompt was sent
C3_Witness ==
    /\ 1 \in DOMAIN user_states
    /\ user_states[1].step = "line"
    /\ outbox[1] = AskLine

\* C4: whenever 'Брак' is processed while the operator has no conversation
\* state, a Defect-flow state at the line step is created.
C4_DefectEntry ==
    [][\A i \in DOMAIN tasks :
          (/\ Handled(i)
           /\ tasks[i].uid \notin DOMAIN user_states
           /\ tasks[i].text = BrakLabel)
          => /\ tasks[i].uid \in DOMAIN user_states'
             /\ user_states'[tasks[i].uid].flow # "startstop"
             /\ user_states'[tasks[i].uid].step = "line"]_vars

\* C5 as claimed: an update id is given to the executor at most once, whatever
\* happened since it was first seen.
C5_DispatchedOncePerId ==
    [][\A id \in Ids : Submitted(id) => id \notin dispatched]_vars

\* C5 as amended: an update whose id is among the ids the bounded queue still
\* holds is not given to the executor again (and the webhook changes nothing
\* else: tasks, states, sheet and outbox stay as they are).
C5_NoRedispatchWhileRecent ==
    [][\A id \in Ids : Submitted(id) => id \notin SeqToSet(processed_update_ids)]_vars

\* C5 witness: an id has been dispatched and is still held by the queue while
\* another dispatched id has been evicted from it
C5_Witness ==
    /\ \E id \in dispatched : id \in SeqToSet(processed_update_ids)
    /\ \E id \in dispatched : id \notin SeqToSet(processed_update_ids)
    /\ 1 \in DOMAIN user_states

\* C6: of two work items of one operator, the one submitted later never holds
\* the operator's lock (its transition being applied) while the one submitted
\* earlier has not been applied yet.
C6_PerOperatorOrder ==
    \A i, j \in DOMAIN tasks :
        (i < j /\ tasks[i].uid = tasks[j].uid /\ tasks[j].pc = "locked")
        => tasks[i].pc \notin {"queued", "acquire"}

\* C7: no two executions of process_update for the same operator are both
\* between the acquisition of the lock and its release.
C7_OneExecutionPerOperator ==
    \A i, j \in DOMAIN tasks :
        (i # j /\ tasks[i].pc = "locked" /\ tasks[j].pc = "locked")
        => tasks[i].uid # tasks[j].uid

\* C7 witness: executions for two different operators overlap, both under
\* their locks
C7_Witness ==
    \E i, j \in DOMAIN tasks :
        /\ tasks[i].pc = "locked" /\ tasks[j].pc = "locked"
        /\ tasks[i].uid # tasks[j].uid

\* C8: when finalize appends no row (the append failed), the state is not
\* deleted together with the success confirmation.
C8_NoSilentDrop ==
    [][\A i \in DOMAIN tasks :
          (Finalizes(i) /\ sheet' = sheet)
          => \/ tasks[i].uid \in DOMAIN user_states'
             \/ outbox'[tasks[i].uid] # Recorded]_vars

\* C9: a conversation does not stay in the store for ever while no message of
\* the operator is waiting or being processed: again and again the store is
\* empty or an update is in the executor.
C9_IdleConversationRemoved ==
    []<>(1 \notin DOMAIN user_states \/ tasks # << >>)

\* C10: finalize appends exactly one row, which carries the values stored at
\* the steps of the conversation and the accepted scrap length, and deletes
\* the operator's state.
C10_FinalizeAppendsOneRecord ==
    [][\A i \in DOMAIN tasks :
          Finalizes(i)
          => LET uid == tasks[i].uid
                 data == user_states[uid].data
             IN  /\ Len(sheet') = Len(sheet) + 1
                 /\ SubSeq(sheet', 1, Len(sheet)) = sheet
                 /\ sheet'[Len(sheet')][1] = data.date_display
                 /\ sheet'[Len(sheet')][2] = data.time
                 /\ sheet'[Len(sheet')][3] = data.line
                 /\ sheet'[Len(sheet')][4] =
                        (IF data.action = ActionZapusk THEN ZapuskLabel ELSE OstanovkaLabel)
                 /\ sheet'[Len(sheet')][5] = Get(data, "reason")
                 /\ sheet'[Len(sheet')][6] = data.znp
                 /\ sheet'[Len(sheet')][7] = tasks[i].text
                 /\ uid \notin DOMAIN user_states']_vars

\* the validation of the step refuses the text (the conditions of lines 443,
\* 457, 468, 482, 491, 500, 539 and 549)
Rejected(step, text) ==
    IF step = "line"
    THEN IF ~isdigit(text) THEN TRUE
         ELSE IntOk(text) /\ ~(1 <= IntVal(text) /\ IntVal(text) <= 15)
    ELSE IF step = "date" THEN text # OtherDateLabel /\ parse_date_input(text) = NoDate
    ELSE IF step = "date_custom" THEN parse_date_input(text) = NoDate
    ELSE IF step = "time" THEN text # OtherTimeLabel /\ ~validate_time_input(text)
    ELSE IF step = "time_custom" THEN ~validate_time_input(text)
    ELSE IF step = "action" THEN text \notin {ZapuskLabel, OstanovkaLabel}
    ELSE IF step = "znp" THEN ~validate_znp(text)
    ELSE IF step = "meters" THEN ~validate_meters(text)
    ELSE FALSE

\* the message sent when the validation of the step refuses the text
Reprompt(step) ==
    IF step = "line" THEN BadLine
    ELSE IF step = "date" THEN BadDate
    ELSE IF step = "date_custom" THEN BadDateCustom
    ELSE IF step = "time" THEN BadTime
    ELSE IF step = "time_custom" THEN BadTimeCustom
    ELSE IF step = "action" THEN BadAction
    ELSE IF step = "znp" THEN BadZnp
    ELSE BadMeters

\* C11: whenever a processed message is refused by the validation of the
\* operator's step, the store (step and every stored field) and the sheet are
\* exactly as before, and the only effect is the re-prompt of that step.
C11_RejectionKeepsState ==
    [][\A i \in DOMAIN tasks :
          (/\ Handled(i)
           /\ tasks[i].uid \in DOMAIN user_states
           /\ tasks[i].text # CancelLabel
           /\ Rejected(user_states[tasks[i].uid].step, tasks[i].text))
          => /\ user_states' = user_states
             /\ sheet' = sheet
             /\ outbox'[tasks[i].uid] = Reprompt(user_states[tasks[i].uid].step)]_vars

\* C11 witness: a text was refused at the reference-code step after line,
\* date, time and action had been stored, and they are all still stored
C11_Witness ==
    /\ 1 \in DOMAIN user_states
    /\ user_states[1].step = "znp"
    /\ outbox[1] = BadZnp
    /\ {"line", "date_iso", "date_display", "time", "action"}
           \subseteq DOMAIN user_states[1].data
    /\ "znp" \notin DOMAIN user_states[1].data

\* C12: as long as the operator's conversation state stays in the store, every
\* key of its data that has a value keeps that value: no step removes or
\* changes a field that was set.
C12_FieldsMonotonic ==
    [][\A uid \in Users :
          (uid \in DOMAIN user_states /\ uid \in DOMAIN user_states')
          => \A k \in DOMAIN user_states[uid].data :
                 /\ k \in DOMAIN user_states'[uid].data
                 /\ user_states'[uid].data[k] = user_states[uid].data[k]]_vars

\* C12 witness: a conversation of a stop has gone through every storing step
\* but the last: line, date, time, action, reason and reference code are stored
C12_Witness ==
    /\ 1 \in DOMAIN user_states
    /\ user_states[1].step = "meters"
    /\ {"line", "date_iso", "date_display", "time", "action", "reason", "znp"}
           \subseteq DOMAIN user_states[1].data
    /\ user_states[1].data.line = << "3" >>
    /\ user_states[1].data.action = ActionOstanovka

\* C13: as long as the operator's conversation state stays in the store its
\* flow does not change and its step does not go back to the line step; and a
\* main-menu label processed while the state exists is not answered as a menu
\* selection (neither the line prompt of a new conversation nor the answer
\* to 'Брак').
C13_NoFlowSelectionWhileActive ==
    [][/\ \A uid \in Users :
             (uid \in DOMAIN user_states /\ uid \in DOMAIN user_states')
             => /\ user_states'[uid].flow = user_states[uid].flow
                /\ user_states'[uid].step = "line" => user_states[uid].step = "line"
       /\ \A i \in DOMAIN tasks :
             (/\ Handled(i)
              /\ tasks[i].uid \in DOMAIN user_states
              /\ tasks[i].text \in {StartStopLabel, BrakLabel})
             => outbox'[tasks[i].uid] \notin {AskLine, NotImplBrak, MainMenu}]_vars

\* C13 witness: 'Старт/Стоп' was sent during a conversation at the reason step
\* and was taken as input of that step: it is the stored reason
C13_Witness ==
    /\ 1 \in DOMAIN user_states
    /\ user_states[1].flow = "startstop"
    /\ user_states[1].step = "znp"
    /\ Get(user_states[1].data, "reason") = StartStopLabel

\* C14: processing a message of one operator, whatever its outcome (accepted,
\* refused, exception, failed append), leaves the store entry of every other
\* operator as it was: present or absent, and with the same flow, step and data.
C14_OtherOperatorsUntouched ==
    [][\A i \in DOMAIN tasks :
          Handled(i)
          => \A v \in Users \ {tasks[i].uid} :
                 /\ (v \in DOMAIN user_states') = (v \in DOMAIN user_states)
                 /\ v \in DOMAIN user_states => user_states'[v] = user_states[v]
                 /\ outbox'[v] = outbox[v]]_vars

\* C14 witness: operator 1 has finalized with a failed append (confirmation
\* sent, state deleted, no row) while operator 2 still has the conversation
\* opened before
C14_Witness ==
    /\ outbox[1] = Recorded
    /\ 1 \notin DOMAIN user_states
    /\ sheet = << >>
    /\ 2 \in DOMAIN user_states
    /\ user_states[2].step = "line"

\* the text is a decimal numeral (digits 0-9 only, leading zeros allowed) of
\* an integer n with 1 <= n <= 15
DenotesLine(text) ==
    \E n \in 1..15 :
        /\ Len(text) >= Len(NatDigits(n))
        /\ text = Fmt(n, Len(text))

\* C15: whenever a message other than the cancel sentinel is processed at the
\* line step, the text is stored as the line and the step becomes date if the
\* text is a decimal numeral of an integer in 1..15; otherwise the store is
\* unchanged (the step stays line and nothing is stored).
C15_LineAcceptedIffInRange ==
    [][\A i \in DOMAIN tasks :
          (/\ Handled(i)
           /\ tasks[i].uid \in DOMAIN user_states
           /\ user_states[tasks[i].uid].step = "line"
           /\ tasks[i].text # CancelLabel)
          => LET uid == tasks[i].uid
             IN  IF DenotesLine(tasks[i].text)
                 THEN /\ uid \in DOMAIN user_states'
                      /\ user_states'[uid].step = "date"
                      /\ Get(user_states'[uid].data, "line") = tasks[i].text
                 ELSE user_states' = user_states]_vars

\* C15 witness: the upper limit 15 was accepted: it is the stored line and the
\* conversation is at the date step
C15_Witness ==
    /\ 1 \in DOMAIN user_states
    /\ user_states[1].step = "date"
    /\ Get(user_states[1].data, "line") = << "1","5" >>

\* the text has the form hh:mm (two digits 0-9, a colon, two digits 0-9) with
\* hour < 24 and minute < 60
IsHHMM(text) ==
    \E hh \in 0..23, mm \in 0..59 : text = Fmt(hh, 2) \o << ":" >> \o Fmt(mm, 2)

\* C16: whenever a message other than the cancel sentinel is processed at the
\* time step or the time_custom step: 'Другое время' at the time step moves to
\* time_custom and stores nothing; otherwise a text of the form hh:mm with
\* hour < 24 and minute < 60 is stored as the time and the step becomes action,
\* and any other text leaves the store unchanged.
C16_TimeStep ==
    [][\A i \in DOMAIN tasks :
          (/\ Handled(i)
           /\ tasks[i].uid \in DOMAIN user_states
           /\ user_states[tasks[i].uid].step \in {"time", "time_custom"}
           /\ tasks[i].text # CancelLabel)
          => LET uid == tasks[i].uid
                 text == tasks[i].text
             IN  IF user_states[uid].step = "time" /\ text = OtherTimeLabel
                 THEN /\ uid \in DOMAIN user_states'
                      /\ user_states'[uid].step = "time_custom"
                      /\ user_states'[uid].data = user_states[uid].data
                      /\ "time" \notin DOMAIN user_states'[uid].data
                 ELSE IF IsHHMM(text)
                 THEN /\ uid \in DOMAIN user_states'
                      /\ user_states'[uid].step = "action"
                      /\ Get(user_states'[uid].data, "time") = text
                 ELSE user_states' = user_states]_vars

\* C16 witness: the last minute of the day was accepted: it is the stored time
\* and the conversation is at the action step
C16_Witness ==
    /\ 1 \in DOMAIN user_states
    /\ user_states[1].step = "action"
    /\ Get(user_states[1].data, "time") = << "2","3",":","5","9" >>
    /\ outbox[1] = AskAction

\* C17: whenever a message other than the cancel sentinel is processed at the
\* action step: 'Запуск' stores the action of a start and the step becomes znp,
\* with no reason stored; 'Остановка' stores the action of a stop and the step
\* becomes reason; any other text leaves the store unchanged, with no action
\* stored.
C17_ActionStep ==
    [][\A i \in DOMAIN tasks :
          (/\ Handled(i)
           /\ tasks[i].uid \in DOMAIN user_states
           /\ user_states[tasks[i].uid].step = "action"
           /\ tasks[i].text # CancelLabel)
          => LET uid == tasks[i].uid
                 text == tasks[i].text
             IN  IF text = ZapuskLabel
                 THEN /\ uid \in DOMAIN user_states'
                      /\ user_states'[uid].step = "znp"
                      /\ Get(user_states'[uid].data, "action") = ActionZapusk
                      /\ "reason" \notin DOMAIN user_states'[uid].data
                 ELSE IF text = OstanovkaLabel
                 THEN /\ uid \in DOMAIN user_states'
                      /\ user_states'[uid].step = "reason"
                      /\ Get(user_states'[uid].data, "action") = ActionOstanovka
                 ELSE /\ user_states' = user_states
                      /\ "action" \notin DOMAIN user_states[uid].data]_vars

\* C17 witness: 'Запуск' was accepted: the action of a start is stored, the
\* conversation is at the reference-code step and no reason was asked
C17_Witness ==
    /\ 1 \in DOMAIN user_states
    /\ user_states[1].step = "znp"
    /\ Get(user_states[1].data, "action") = ActionZapusk
    /\ "reason" \notin DOMAIN user_states[1].data
    /\ outbox[1] = AskZnp

\* the stop reasons load_reasons() gives at the reason step
CurrentReasons == {load_reasons(ReasonsColumn, TRUE)[k] :
                      k \in 1..Len(load_reasons(ReasonsColumn, TRUE))}

\* C18: whenever a message other than the cancel sentinel is processed at the
\* reason step: 'Другое' moves to reason_custom; a text of the current list of
\* stop reasons is stored as the reason and the step becomes znp; a text that
\* is not in the list is refused: the store is unchanged and the step stays
\* reason.
C18_ReasonFromList ==
    [][\A i \in DOMAIN tasks :
          (/\ Handled(i)
           /\ tasks[i].uid \in DOMAIN user_states
           /\ user_states[tasks[i].uid].step = "reason"
           /\ tasks[i].text # CancelLabel)
          => LET uid == tasks[i].uid
                 text == tasks[i].text
             IN  IF text = OtherLabel
                 THEN /\ uid \in DOMAIN user_states'
                      /\ user_states'[uid].step = "reason_custom"
                 ELSE IF text \in CurrentReasons
                 THEN /\ uid \in DOMAIN user_states'
                      /\ user_states'[uid].step = "znp"
                      /\ Get(user_states'[uid].data, "reason") = text
                 ELSE user_states' = user_states]_vars

\* the keys process_update and start_startstop_flow write into state["data"]
DataKeys == {"user", "chat_id", "line", "date_iso", "date_display", "time",
             "action", "reason", "znp", "meters"}

\* the data holds a pending prefix of the reference code: a key beyond the
\* fields of the record
HasPendingPrefix(data) == DOMAIN data \ DataKeys # {}

\* the text is exactly 4 digits 0-9
FourDigits(text) == Len(text) = 4 /\ \A k \in 1..4 : IsDecimal(text[k])

\* C19: whenever a text of exactly 4 digits is processed at the reference-code
\* step while no pending prefix is stored in the conversation, the text is
\* refused: the store is unchanged and the step does not become meters.
C19_SuffixNeedsPrefix ==
    [][\A i \in DOMAIN tasks :
          (/\ Handled(i)
           /\ tasks[i].uid \in DOMAIN user_states
           /\ user_states[tasks[i].uid].step = "znp"
           /\ FourDigits(tasks[i].text)
           /\ ~HasPendingPrefix(user_states[tasks[i].uid].data))
          => /\ user_states' = user_states
             /\ user_states'[tasks[i].uid].step # "meters"]_vars

\* C20: whenever a scrap length is accepted at the meters step, it is stored,
\* the conversation stays in the store at a later step (the defect type), and
\* no row is appended.
C20_MetersThenDefectType ==
    [][\A i \in DOMAIN tasks :
          Finalizes(i)
          => /\ tasks[i].uid \in DOMAIN user_states'
             /\ user_states'[tasks[i].uid].step # "meters"
             /\ Get(user_states'[tasks[i].uid].data, "meters") = tasks[i].text
             /\ sheet' = sheet]_vars

\* the steps process_update has a branch for
KnownSteps == {"line", "date", "date_custom", "time", "time_custom", "action",
               "reason", "reason_custom", "znp", "meters"}

\* C21: every entry of the conversation store has flow 'startstop' and a step
\* process_update has a branch for, and neither the 'state error' answer nor
\* the answer of the final fallback has ever been sent.
C21_StoreWellFormed ==
    /\ \A uid \in DOMAIN user_states :
           /\ user_states[uid].flow = "startstop"
           /\ user_states[uid].step \in KnownSteps
    /\ \A u \in Users : outbox[u] \notin {StateError, FallbackError}

\* C21 witness: a conversation stands at the reason_custom step, entered from
\* the reason step with 'Другое'
C21_Witness ==
    /\ 1 \in DOMAIN user_states
    /\ user_states[1].step = "reason_custom"
    /\ outbox[1] = AskReasonCustom

\* this step is AcquireTimeout(i): the work item that waited for the lock is
\* dropped
TimedOut(i) == tasks[i].pc = "acquire" /\ tasks' = Remove(tasks, i)

\* the lock of an operator is held exactly while one work item of that
\* operator is between acquire and release
HeldOnlyWhileRunning ==
    \A uid \in DOMAIN user_locks :
        user_locks[uid]
            = (\E i \in DOMAIN tasks : tasks[i].pc = "locked" /\ tasks[i].uid = uid)

\* C22: the step that ends an execution holding the operator's lock releases
\* it, whatever the path through the body (refusal, acceptance, finalize,
\* exception); the step that ends an execution whose acquire timed out leaves
\* every lock as it was; and after every step a lock is held exactly while an
\* execution of its operator is under it.
C22_LockReleased ==
    [][/\ \A i \in DOMAIN tasks :
             Handled(i) => /\ tasks[i].uid \in DOMAIN user_locks'
                           /\ ~user_locks'[tasks[i].uid]
       /\ \A i \in DOMAIN tasks : TimedOut(i) => user_locks' = user_locks
       /\ HeldOnlyWhileRunning']_vars

\* C22 witness: operator 2's lock has been taken and released, while an
\* execution for operator 1 holds operator 1's lock and a second one waits
\* for it
C22_Witness ==
    /\ 2 \in DOMAIN user_locks /\ ~user_locks[2]
    /\ 1 \in DOMAIN user_locks /\ user_locks[1]
    /\ \E i, j \in DOMAIN tasks :
           /\ tasks[i].uid = 1 /\ tasks[i].pc = "locked"
           /\ tasks[j].uid = 1 /\ tasks[j].pc = "acquire"

\* the next call is_duplicate_update(id), in the current state
NextCall(id) ==
    is_duplicate_update(processed_update_ids, processed_update_ids_set, id)

\* C23: the lookup set holds exactly the ids in the bounded queue, the queue
\* holds no id twice, never more ids than its capacity, and only ids that were
\* dispatched, as many as were dispatched up to the capacity; a call of
\* is_duplicate_update answers 'duplicate' exactly for the ids in the queue
\* (so an evicted id is new again), records a new id as the newest element,
\* and leaves the set equal to the queue.
C23_SetMirrorsQueue ==
    /\ processed_update_ids_set = SeqToSet(processed_update_ids)
    /\ Len(processed_update_ids) <= DedupMaxLen
    /\ Cardinality(SeqToSet(processed_update_ids)) = Len(processed_update_ids)
    /\ SeqToSet(processed_update_ids) \subseteq dispatched
    /\ Len(processed_update_ids) =
           (IF Cardinality(dispatched) < DedupMaxLen THEN Cardinality(dispatched)
            ELSE DedupMaxLen)
    /\ \A id \in Ids :
           /\ NextCall(id).dup = (id \in SeqToSet(processed_update_ids))
           /\ NextCall(id).set = SeqToSet(NextCall(id).q)
           /\ Len(NextCall(id).q) <= DedupMaxLen
           /\ ~NextCall(id).dup
                 => NextCall(id).q[Len(NextCall(id).q)] = id

\* C23 witness: the queue is full, an id that was dispatched has been evicted
\* from it, and the next call with that id answers 'new'
C23_Witness ==
    /\ Len(processed_update_ids) = DedupMaxLen
    /\ \E id \in dispatched :
           /\ id \notin SeqToSet(processed_update_ids)
           /\ ~NextCall(id).dup

\* C24: every row of the sheet whose action is 'Запуск' has an empty reason
\* cell, and every row with a non-empty reason cell has the action
\* 'Остановка'.
C24_ReasonOnlyForStop ==
    \A r \in DOMAIN sheet :
        /\ sheet[r][4] = ZapuskLabel => sheet[r][5] = EmptyText
        /\ sheet[r][5] # EmptyText => sheet[r][4] = OstanovkaLabel

\* C24 witness: the row of a start report is in the sheet, with its reference
\* code and scrap length and an empty reason cell
C24_Witness ==
    \E r \in DOMAIN sheet :
        /\ sheet[r][4] = ZapuskLabel
        /\ sheet[r][5] = EmptyText
        /\ sheet[r][6] = << "1","2","3","4" >>
        /\ sheet[r][7] # EmptyText

=============================================================================
